---- MODULE Spec2Model ----
(***************************************************************************)
(* node-libnftables: the native binding LibNftables                        *)
(* (src/src/napi_libnftables.cc) and its JavaScript wrapper                *)
(* LibNftablesContext (src/lib/index.js), as one state machine.            *)
(*                                                                         *)
(* One Context instance is modelled.  Every public method is one action;   *)
(* the native method it calls is an operator that computes the whole       *)
(* outcome of the call (new native state, thrown error, process crash).    *)
(* libnftables itself is the environment: its answers (allocation result,  *)
(* buffer-enable result, command verdict, command output, whether a        *)
(* dry-run request is honoured) are inputs drawn with \E.                  *)
(***************************************************************************)
EXTENDS Integers, Sequences, FiniteSets, TLC

(***************************************************************************)
(* Bounds                                                                  *)
(***************************************************************************)
\* number of native handles nft_ctx_new may hand out in one run
MaxHandles == 3
\* longest argument list passed to setOutputFlags
MaxArgs == 2
\* longest text spelled out character by character
MaxChars == 4
\* most lines in a text put together from line shapes
MaxLines == 3
\* callers that share one Context
MaxCallers == 2

(***************************************************************************)
(* JavaScript values                                                       *)
(***************************************************************************)
Undefined == [type |-> "undefined"]
Str(s) == [type |-> "string", val |-> s]
Bool(b) == [type |-> "boolean", val |-> b]
\* A number is its sign, the set of bit positions of the integer part of
\* its magnitude, and whether it has a fractional part.
Num(neg, bits, frac) == [type |-> "number", neg |-> neg, bits |-> bits, frac |-> frac]
\* a non-negative integer given by its set bits
UInt(bits) == Num(FALSE, bits, FALSE)

(***************************************************************************)
(* Output flags: an unsigned int bitmask, kept as the set of its set bits  *)
(***************************************************************************)
\* width of unsigned int / int32_t
IntBits == 32
BitPos == 0 .. (IntBits - 1)
OUTPUT_DEFAULT == {}
OUTPUT_HANDLE == {3}
OUTPUT_JSON == {4}

\* two's complement negation of a bitmask, modulo 2^IntBits
Negate(bits) ==
    IF bits = {} THEN {}
    ELSE LET low == CHOOSE b \in bits : \A c \in bits : b <= c
         IN  {low} \cup {b \in BitPos : b > low /\ b \notin bits}

\* Napi::Number::Int32Value() followed by the conversion to unsigned int
\* done by `flags |= ...`: the fraction is dropped, the value is reduced
\* modulo 2^32, a negative value is taken in two's complement.
Int32Value(n) ==
    LET low == n.bits \cap BitPos
    IN  IF n.neg THEN Negate(low) ELSE low

(***************************************************************************)
(* Text: a sequence of one-character strings                               *)
(***************************************************************************)
EmptyText == << >>
\* "table ip t {\n}\n" and the same listing with the handle annotation
TextListing == <<"t", " ", "{", "\n", "\t", "c", "\n", "}", "\n">>
TextHandles ==
    <<"t", " ", "{", " ", "#", " ", "h", "a", "n", "d", "l", "e", " ", "1", "\n", "}", "\n">>
\* {"nftables": []} shortened to {"n":[1]}
TextJson == <<"{", "\"", "n", "\"", ":", "[", "1", "]", "}", "\n">>
\* text of the error buffer after a rejected command
TextError == <<"E", "r", "r", "\n">>

(***************************************************************************)
(* asArray: String.prototype.replace / trim / split / filter               *)
(***************************************************************************)
\* characters String.prototype.trim removes (those the model's texts use)
WhiteSpace == {" ", "\t", "\n", "\r"}

RECURSIVE TrimStart(_)
TrimStart(s) ==
    IF s # << >> /\ Head(s) \in WhiteSpace THEN TrimStart(Tail(s)) ELSE s

RECURSIVE TrimEnd(_)
TrimEnd(s) ==
    IF s # << >> /\ s[Len(s)] \in WhiteSpace
    THEN TrimEnd(SubSeq(s, 1, Len(s) - 1)) ELSE s

Trim(s) == TrimEnd(TrimStart(s))

\* variant: the closing brace is kept
StripTabsBraces_partial(s) == SelectSeq(s, LAMBDA c : c \notin {"\t", "{"})

\* s.replace(/[\t{}]/gu, '')
StripTabsBraces(s) == SelectSeq(s, LAMBDA c : c \notin {"\t", "{", "}"})

RECURSIVE SkipNewlines(_, _)
SkipNewlines(s, i) ==
    IF i <= Len(s) /\ s[i] = "\n" THEN SkipNewlines(s, i + 1) ELSE i

\* s.split(/\n+/u), from position i with the piece cur under construction
RECURSIVE SplitFrom(_, _, _)
SplitFrom(s, i, cur) ==
    IF i > Len(s) THEN <<cur>>
    ELSE IF s[i] = "\n" THEN <<cur>> \o SplitFrom(s, SkipNewlines(s, i), << >>)
    ELSE SplitFrom(s, i + 1, Append(cur, s[i]))

SplitLines(s) == SplitFrom(s, 1, << >>)

AsArray(text) ==
    SelectSeq(SplitLines(Trim(StripTabsBraces(text))), LAMBDA l : l # << >>)

(***************************************************************************)
(* asMap: the lines of asArray, split at the handle annotation, collected   *)
(* in a Map.  A Map is the sequence of its <<key, value>> entries in         *)
(* insertion order.                                                        *)
(***************************************************************************)
HandleWord == <<"h", "a", "n", "d", "l", "e">>
\* the characters \s matches
RegexSpace == {" ", "\t", "\n", "\r"}

RECURSIVE SkipSpace(_, _)
SkipSpace(s, i) ==
    IF i <= Len(s) /\ s[i] \in RegexSpace THEN SkipSpace(s, i + 1) ELSE i

\* rule.match(/handle/)
ContainsHandle(s) ==
    \E i \in 1 .. Len(s) :
        /\ i + Len(HandleWord) - 1 <= Len(s)
        /\ \A k \in 1 .. Len(HandleWord) : s[i + k - 1] = HandleWord[k]

\* /\s+#\s+handle\s+/u matched at position q exactly: the position after the
\* match, 0 if there is none.  Each \s+ is followed by a character that is
\* not a space, so it takes the whole run of spaces.
MatchHandleExp(s, q) ==
    LET a == SkipSpace(s, q)
        b == SkipSpace(s, a + 1)
        c == b + Len(HandleWord)
        d == SkipSpace(s, c)
    IN  IF /\ a > q
           /\ a <= Len(s) /\ s[a] = "#"
           /\ b > a + 1
           /\ c - 1 <= Len(s)
           /\ \A k \in 1 .. Len(HandleWord) : s[b + k - 1] = HandleWord[k]
           /\ d > c
        THEN d ELSE 0

\* rule.split(handleExp): p is where the current piece starts, q where the
\* next match is tried
RECURSIVE SplitHandleFrom(_, _, _)
SplitHandleFrom(s, p, q) ==
    IF q > Len(s) THEN <<SubSeq(s, p, Len(s))>>
    ELSE LET e == MatchHandleExp(s, q)
         IN  IF e = 0 THEN SplitHandleFrom(s, p, q + 1)
             ELSE <<SubSeq(s, p, q - 1)>> \o SplitHandleFrom(s, e, e)

SplitHandle(s) == SplitHandleFrom(s, 1, 1)

\* variant: a key already present keeps its value
MapSet_keeping(m, k, v) ==
    IF \E j \in 1 .. Len(m) : m[j][1] = k THEN m ELSE Append(m, <<k, v>>)

\* handles.set(k, v)
MapSet(m, k, v) ==
    IF \E j \in 1 .. Len(m) : m[j][1] = k
    THEN [j \in 1 .. Len(m) |-> IF m[j][1] = k THEN <<k, v>> ELSE m[j]]
    ELSE Append(m, <<k, v>>)

\* variant: a rule that does not split is entered under its own text
RuleEntry_unguarded(rule) ==
    LET pieces == SplitHandle(rule)
    IN  << <<pieces[Len(pieces)], pieces[1]>> >>

\* the body of the loop: the <<key, value>> entry the rule adds, if any
RuleEntry(rule) ==
    LET pieces == SplitHandle(rule)
    IN  IF ContainsHandle(rule) /\ Len(pieces) > 1
        THEN << <<pieces[2], pieces[1]>> >> ELSE << >>

\* the loop over the rules from index i on, handles being the Map so far
RECURSIVE MapLoop(_, _, _)
MapLoop(ruleset, i, handles) ==
    IF i > Len(ruleset) THEN handles
    ELSE LET entry == RuleEntry(ruleset[i])
         IN  IF entry # << >>
             THEN MapLoop(ruleset, i + 1, MapSet(handles, entry[1][1], entry[1][2]))
             ELSE MapLoop(ruleset, i + 1, handles)

AsMap(text) == MapLoop(AsArray(text), 1, << >>)

(***************************************************************************)
(* JSON.parse: a recogniser of the JSON grammar.  Each Parse operator      *)
(* takes the position to read from and gives the position after what it    *)
(* read, or ParseFail.                                                     *)
(***************************************************************************)
ParseFail == 0
JsonWS == {" ", "\t", "\n", "\r"}
Digits == {"0", "1", "2", "3", "4", "5", "6", "7", "8", "9"}
EscapeChars == {"\"", "\\", "/", "b", "f", "n", "r", "t"}
ControlChars == {"\t", "\n", "\r"}

RECURSIVE SkipWS(_, _)
SkipWS(s, i) ==
    IF i <= Len(s) /\ s[i] \in JsonWS THEN SkipWS(s, i + 1) ELSE i

StartsWith(s, i, w) ==
    /\ i + Len(w) - 1 <= Len(s)
    /\ \A k \in 1 .. Len(w) : s[i + k - 1] = w[k]

RECURSIVE ParseDigits(_, _)
ParseDigits(s, i) ==
    IF i <= Len(s) /\ s[i] \in Digits THEN ParseDigits(s, i + 1) ELSE i

Has(s, i, c) == i <= Len(s) /\ s[i] = c

ParseNumber(s, i) ==
    LET a == IF Has(s, i, "-") THEN i + 1 ELSE i
        b == ParseDigits(s, a)
        intOk == b > a /\ (s[a] = "0" => b = a + 1)
        c == IF Has(s, b, ".") THEN ParseDigits(s, b + 1) ELSE b
        fracOk == Has(s, b, ".") => c > b + 1
        hasExp == Has(s, c, "e") \/ Has(s, c, "E")
        d == IF Has(s, c + 1, "+") \/ Has(s, c + 1, "-") THEN c + 2 ELSE c + 1
        e == IF hasExp THEN ParseDigits(s, d) ELSE c
        expOk == hasExp => e > d
    IN  IF intOk /\ fracOk /\ expOk THEN e ELSE ParseFail

\* i is the position after the opening quote
RECURSIVE ParseString(_, _)
ParseString(s, i) ==
    IF i > Len(s) THEN ParseFail
    ELSE IF s[i] = "\"" THEN i + 1
    ELSE IF s[i] = "\\"
         THEN IF i + 1 <= Len(s) /\ s[i + 1] \in EscapeChars
              THEN ParseString(s, i + 2) ELSE ParseFail
    ELSE IF s[i] \in ControlChars THEN ParseFail
    ELSE ParseString(s, i + 1)

RECURSIVE ParseValue(_, _)
RECURSIVE ParseElements(_, _)
RECURSIVE ParseMembers(_, _)

ParseValue(s, i0) ==
    LET i == SkipWS(s, i0)
    IN  IF i > Len(s) THEN ParseFail
        ELSE IF s[i] = "{"
             THEN LET j == SkipWS(s, i + 1)
                  IN  IF Has(s, j, "}") THEN j + 1 ELSE ParseMembers(s, j)
        ELSE IF s[i] = "["
             THEN LET j == SkipWS(s, i + 1)
                  IN  IF Has(s, j, "]") THEN j + 1 ELSE ParseElements(s, j)
        ELSE IF s[i] = "\"" THEN ParseString(s, i + 1)
        ELSE IF s[i] \in Digits \cup {"-"} THEN ParseNumber(s, i)
        ELSE IF StartsWith(s, i, <<"t", "r", "u", "e">>) THEN i + 4
        ELSE IF StartsWith(s, i, <<"f", "a", "l", "s", "e">>) THEN i + 5
        ELSE IF StartsWith(s, i, <<"n", "u", "l", "l">>) THEN i + 4
        ELSE ParseFail

\* the elements of an array up to and including the closing bracket
ParseElements(s, i) ==
    LET v == ParseValue(s, i)
    IN  IF v = ParseFail THEN ParseFail
        ELSE LET j == SkipWS(s, v)
             IN  IF Has(s, j, ",") THEN ParseElements(s, j + 1)
                 ELSE IF Has(s, j, "]") THEN j + 1
                 ELSE ParseFail

\* the members of an object up to and including the closing brace
ParseMembers(s, i) ==
    LET k == SkipWS(s, i)
    IN  IF ~Has(s, k, "\"") THEN ParseFail
        ELSE LET e == ParseString(s, k + 1)
             IN  IF e = ParseFail THEN ParseFail
                 ELSE LET c == SkipWS(s, e)
                      IN  IF ~Has(s, c, ":") THEN ParseFail
                          ELSE LET v == ParseValue(s, c + 1)
                               IN  IF v = ParseFail THEN ParseFail
                                   ELSE LET j == SkipWS(s, v)
                                        IN  IF Has(s, j, ",") THEN ParseMembers(s, j + 1)
                                            ELSE IF Has(s, j, "}") THEN j + 1
                                            ELSE ParseFail

\* JSON.parse(text) returns rather than throwing SyntaxError
JsonParses(text) ==
    LET e == ParseValue(text, 1)
    IN  e # ParseFail /\ SkipWS(text, e) = Len(text) + 1

(***************************************************************************)
(* libnftables, the environment                                            *)
(***************************************************************************)
CmdList == "list ruleset"
CmdAdd == "add table ip t"
CmdBogus == "add bogus nonsense"
Commands == {CmdList, CmdAdd, CmdBogus}

\* return values of nft_run_cmd_from_buffer: 0 is success.  A command the
\* grammar rejects always fails; a well-formed one may still fail.
RcOk == 0
RcFail == 1
Verdicts(cmd) == IF cmd = CmdBogus THEN {RcFail} ELSE {RcOk, RcFail}

\* What an accepted command may leave in the output buffer under the given
\* output flags: JSON only with OUTPUT_JSON, handle annotations only with
\* OUTPUT_HANDLE, nothing for a command that lists nothing.
EngineOutput(cmd, flags) ==
    IF cmd # CmdList THEN {EmptyText}
    ELSE IF OUTPUT_JSON \subseteq flags THEN {TextJson}
    ELSE IF OUTPUT_HANDLE \subseteq flags THEN {TextHandles, EmptyText}
    ELSE {TextListing, EmptyText}

EngineTexts == {EmptyText, TextListing, TextHandles, TextJson}

\* the command changes the ruleset when it is committed
Mutating(cmd) == cmd = CmdAdd
\* The engine commits an accepted command unless the context is in dry-run
\* mode, where the command is checked only.
Commits(cmd, rc, dry) == rc = RcOk /\ Mutating(cmd) /\ ~dry

(***************************************************************************)
(* State                                                                   *)
(***************************************************************************)
VARIABLES
    phase,            \* where the instance is in its life
    ctx_,             \* LibNftables::ctx_: NULL or the handle held
    nft,              \* the struct nft_ctx behind ctx_
    live,             \* handles allocated and not yet freed
    nextId,           \* the handle the next nft_ctx_new returns
    _lastResponse,    \* LibNftablesContext._lastResponse
    _dryRun,          \* LibNftablesContext._dryRun
    ret,              \* the latest call: its method and the error it threw;
                      \* for setOutputFlags also whether the arguments were
                      \* all bitmasks, and the OR of their values; for
                      \* asString, asArray and asMap also the value returned
    run,              \* what the engine did in the latest call, if a runCmd:
                      \* the command, the verdict, the output, and whether
                      \* the command was committed to the ruleset
    respFlags,        \* output flags under which _lastResponse was produced
    nullCall,         \* a libnftables function was called with a null handle
    frees,            \* the handles nft_ctx_free was called on, in call order
    callers,          \* the callers that share the Context, if more than one:
                      \* where each is in its program and what it observed
    last,             \* which caller set the output flags, and which one
                      \* produced the stored response, most recently
    NAPI_CPP_EXCEPTIONS  \* how node-addon-api was built

vars == <<phase, ctx_, nft, live, nextId, _lastResponse, _dryRun, ret, run,
          respFlags, nullCall, frees, NAPI_CPP_EXCEPTIONS,
                   callers, last>>

NULL == 0
NoError == ""
\* the process died (SIGSEGV on a null dereference, or napi_fatal_error)
Crashed == "crashed"

\* no caller
NoCaller == 0
\* one anonymous caller
NoCallers == << >>

\* nft_run_cmd_from_buffer was not called
NoRun == [invoked |-> FALSE, cmd |-> "", rc |-> RcOk, out |-> EmptyText,
          committed |-> FALSE]

\* a context as nft_ctx_new(NFT_CTX_DEFAULT) returns it
NewCtx == [flags |-> OUTPUT_DEFAULT, dry |-> FALSE, outBuf |-> FALSE, errBuf |-> FALSE]

Init ==
    /\ phase = "constructing"
    /\ ctx_ = NULL
    /\ nft = NewCtx
    /\ live = {}
    /\ nextId = 1
    /\ _lastResponse = Undefined
    /\ _dryRun = Undefined
    /\ ret = [op |-> "super", err |-> NoError]
    /\ run = NoRun
    /\ respFlags = OUTPUT_DEFAULT
    /\ nullCall = FALSE
    /\ frees = << >>
    /\ NAPI_CPP_EXCEPTIONS \in BOOLEAN
    /\ callers = NoCallers
    /\ last = [setBy |-> NoCaller, respBy |-> NoCaller]

(***************************************************************************)
(* Native methods.  Each gives the whole outcome of one call: err is the   *)
(* message of the JavaScript exception pending when the method returns     *)
(* (NoError if none), crash tells that the process died inside the call.   *)
(* Error::ThrowAsJavaScriptException only records the exception: the C++   *)
(* code after it still runs.                                               *)
(***************************************************************************)
ErrOutBuf == "output buffer could not be enabled"
ErrErrBuf == "error buffer could not be enabled"
ErrCmdArg == "Expecting a single string argument"
ErrNullString == "Invalid argument"
ErrCommand == "nft_ctx_get_error_buffer"
ErrBoolArg == "Boolean argument required"
ErrDryRun == "Dry Run mode change failed"
ErrNoFlags == "One or more integer arguments required"
ErrFlagType == "Integer arguments only"
ErrJson == "SyntaxError"

\* variant: the flags read from the old context are not applied
RestoreFlags_dropped(curFlags) == NewCtx.flags

\* the flags the new context ends up with, given those read from the old
RestoreFlags(curFlags) ==
    IF curFlags # OUTPUT_DEFAULT THEN curFlags ELSE NewCtx.flags

\* variant: the old context is not released
ReleaseOld_skipped == << >>

\* if (ctx_ != nullptr) nft_ctx_free(ctx_): the handles released
ReleaseOld == IF ctx_ # NULL THEN <<ctx_>> ELSE << >>

\* variant: the dry-run mode of the old context is carried over
InitDryRun_restored == IF ctx_ # NULL THEN nft.dry ELSE NewCtx.dry

\* the dry-run mode of the new context: nothing sets it after nft_ctx_new
InitDryRun == NewCtx.dry

\* allocOk: nft_ctx_new returned a context; ob, eb: the return values of
\* nft_ctx_buffer_output and nft_ctx_buffer_error
initContext(allocOk, ob, eb) ==
    LET had == ctx_ # NULL
        curFlags == IF had THEN nft.flags ELSE OUTPUT_DEFAULT
        freed == ReleaseOld
        live1 == live \ {freed[i] : i \in 1 .. Len(freed)}
    IN  IF ~allocOk
        THEN \* ctx_ is null and is handed to libnftables, which dereferences it
             [ctx |-> NULL, nft |-> NewCtx, live |-> live1, nextId |-> nextId,
              freed |-> freed,
              err |-> NoError, crash |-> TRUE, nullCall |-> TRUE]
        ELSE [ctx |-> nextId,
              nft |-> [flags |-> RestoreFlags(curFlags), dry |-> InitDryRun,
                       outBuf |-> (ob = 0), errBuf |-> (eb = 0)],
              live |-> live1 \cup {nextId},
              freed |-> freed,
              nextId |-> nextId + 1,
              err |-> IF ob # 0 THEN ErrOutBuf
                      ELSE IF eb # 0 THEN ErrErrBuf ELSE NoError,
              \* a second throw while one is pending: napi_throw fails, which
              \* is fatal unless node-addon-api uses C++ exceptions
              crash |-> (ob # 0 /\ eb # 0 /\ ~NAPI_CPP_EXCEPTIONS),
              nullCall |-> FALSE]

\* rc: the engine's verdict; out: the output an accepted command leaves
_runCmd(arg, rc, out) ==
    IF arg.type # "string"
    THEN [err |-> ErrCmdArg, crash |-> FALSE, value |-> Undefined,
          invoked |-> FALSE, nullCall |-> FALSE]
    ELSE IF ctx_ = NULL
    THEN [err |-> NoError, crash |-> TRUE, value |-> Undefined,
          invoked |-> FALSE, nullCall |-> TRUE]
    ELSE IF rc # 0
    THEN \* without an error buffer nft_ctx_get_error_buffer gives NULL, and
         \* Napi::Error::New takes its strlen
         [err |-> IF nft.errBuf THEN ErrCommand ELSE NoError,
          crash |-> ~nft.errBuf, value |-> Undefined,
          invoked |-> TRUE, nullCall |-> FALSE]
    ELSE \* without an output buffer nft_ctx_get_output_buffer gives NULL,
         \* which Napi::String::New rejects
         [err |-> IF nft.outBuf THEN NoError ELSE ErrNullString,
          crash |-> FALSE,
          value |-> IF nft.outBuf THEN Str(out) ELSE Undefined,
          invoked |-> TRUE, nullCall |-> FALSE]

\* variant: the mode is not read back after the request
_setDryRun_unchecked(arg, honoured) ==
    IF arg.type # "boolean"
    THEN [err |-> ErrBoolArg, crash |-> FALSE, value |-> Undefined, nft |-> nft,
          nullCall |-> FALSE]
    ELSE [err |-> NoError, crash |-> FALSE, value |-> Bool(arg.val),
          nft |-> [nft EXCEPT !.dry = IF honoured THEN arg.val ELSE nft.dry],
          nullCall |-> FALSE]

\* honoured: nft_ctx_set_dry_run took effect
_setDryRun(arg, honoured) ==
    IF arg.type # "boolean"
    THEN [err |-> ErrBoolArg, crash |-> FALSE, value |-> Undefined, nft |-> nft,
          nullCall |-> FALSE]
    ELSE IF ctx_ = NULL
    THEN [err |-> NoError, crash |-> TRUE, value |-> Undefined, nft |-> nft,
          nullCall |-> TRUE]
    ELSE LET requested == arg.val
             actual == IF honoured THEN requested ELSE nft.dry
         IN  [err |-> IF actual # requested THEN ErrDryRun ELSE NoError,
              crash |-> FALSE,
              value |-> IF actual # requested THEN Undefined ELSE Bool(actual),
              nft |-> [nft EXCEPT !.dry = actual],
              nullCall |-> FALSE]

_getDryRun == nft.dry

_getOutputFlags == nft.flags

\* The loop over the arguments from index i on: flags accumulated so far,
\* pending the exception pending so far.  stop: the loop was left by a C++
\* exception; crash: a throw met a pending exception without C++ exceptions.
RECURSIVE FlagsLoop(_, _, _, _)
FlagsLoop(args, i, flags, pending) ==
    IF i > Len(args)
    THEN [flags |-> flags, err |-> pending, stop |-> FALSE, crash |-> FALSE]
    ELSE IF args[i].type # "number"
    THEN IF NAPI_CPP_EXCEPTIONS
         THEN [flags |-> flags, err |-> ErrFlagType, stop |-> TRUE, crash |-> FALSE]
         ELSE IF pending # NoError
         THEN [flags |-> flags, err |-> pending, stop |-> TRUE, crash |-> TRUE]
         ELSE FlagsLoop(args, i + 1, flags, ErrFlagType)
    ELSE FlagsLoop(args, i + 1, flags \cup Int32Value(args[i]), pending)

\* variant: the loop starts from the active flags instead of 0
_setOutputFlags_merging(args) ==
    LET loop == FlagsLoop(args, 1, nft.flags, IF Len(args) = 0 THEN ErrNoFlags ELSE NoError)
    IN  IF loop.stop
        THEN [err |-> loop.err, crash |-> loop.crash, nft |-> nft, nullCall |-> FALSE]
        ELSE [err |-> loop.err, crash |-> FALSE,
              nft |-> [nft EXCEPT !.flags = loop.flags], nullCall |-> FALSE]

_setOutputFlags(args) ==
    LET loop == FlagsLoop(args, 1, {}, IF Len(args) = 0 THEN ErrNoFlags ELSE NoError)
    IN  IF loop.stop
        THEN [err |-> loop.err, crash |-> loop.crash, nft |-> nft, nullCall |-> FALSE]
        ELSE IF ctx_ = NULL
        THEN [err |-> loop.err, crash |-> TRUE, nft |-> nft, nullCall |-> TRUE]
        ELSE [err |-> loop.err, crash |-> FALSE,
              nft |-> [nft EXCEPT !.flags = loop.flags], nullCall |-> FALSE]

\* variant: the destructor releases nothing
Destructor_leaking == << >>

\* ~LibNftables: the handles released
Destructor == IF ctx_ # NULL THEN <<ctx_>> ELSE << >>

(***************************************************************************)
(* LibNftablesContext: one action per method                               *)
(***************************************************************************)
RunCmdArgs == {Str(CmdList), Str(CmdAdd), Str(CmdBogus), Undefined, UInt({0})}
SetDryRunArgs == {Undefined, Bool(TRUE), Bool(FALSE), UInt({0})}
\* 0, OUTPUT_HANDLE, OUTPUT_JSON, 2^32 + 8, and the string "8"
FlagArgs == {UInt(OUTPUT_DEFAULT), UInt(OUTPUT_HANDLE), UInt(OUTPUT_JSON),
             UInt({3, 32}), Str("8")}
FlagArgLists == UNION {[1 .. n -> FlagArgs] : n \in 0 .. MaxArgs}

\* the native state after initContext
SetNative(r) ==
    /\ ctx_' = r.ctx
    /\ nft' = r.nft
    /\ live' = r.live
    /\ nextId' = r.nextId
    /\ nullCall' = (nullCall \/ r.nullCall)
    /\ frees' = frees \o r.freed

\* variant: the instance is handed out even if _initContext threw
constructor_lenient(allocOk, ob, eb) ==
    /\ phase = "constructing"
    /\ nextId <= MaxHandles
    /\ LET r == initContext(allocOk, ob, eb)
       IN  /\ SetNative(r)
           /\ phase' = IF r.crash THEN Crashed ELSE "ready"
           /\ ret' = [op |-> "constructor", err |-> r.err]
    /\ _lastResponse' = Str(EmptyText)
    /\ run' = NoRun
    /\ UNCHANGED <<_dryRun, respFlags, NAPI_CPP_EXCEPTIONS,
                   callers, last>>

\* new LibNftablesContext(): the native constructor has run (Init); a throw
\* from _initContext leaves no reference to the instance
constructor(allocOk, ob, eb) ==
    /\ phase = "constructing"
    /\ nextId <= MaxHandles
    /\ LET r == initContext(allocOk, ob, eb)
       IN  /\ SetNative(r)
           /\ phase' = IF r.crash THEN Crashed
                       ELSE IF r.err # NoError THEN "failed" ELSE "ready"
           /\ ret' = [op |-> "constructor", err |-> r.err]
    /\ _lastResponse' = Str(EmptyText)
    /\ run' = NoRun
    /\ UNCHANGED <<_dryRun, respFlags, NAPI_CPP_EXCEPTIONS,
                   callers, last>>

\* variant: the refresh also resets the stored response
refreshContext_clearing(allocOk, ob, eb) ==
    /\ phase = "ready"
    /\ nextId <= MaxHandles
    /\ LET r == initContext(allocOk, ob, eb)
       IN  /\ SetNative(r)
           /\ phase' = IF r.crash THEN Crashed ELSE phase
           /\ ret' = [op |-> "refreshContext", err |-> r.err]
    /\ _lastResponse' = Str(EmptyText)
    /\ run' = NoRun
    /\ UNCHANGED <<_dryRun, respFlags, NAPI_CPP_EXCEPTIONS,
                   callers, last>>

refreshContext(allocOk, ob, eb) ==
    /\ phase = "ready"
    /\ nextId <= MaxHandles
    /\ LET r == initContext(allocOk, ob, eb)
       IN  /\ SetNative(r)
           /\ phase' = IF r.crash THEN Crashed ELSE phase
           /\ ret' = [op |-> "refreshContext", err |-> r.err]
    /\ run' = NoRun
    /\ UNCHANGED <<_lastResponse, _dryRun, respFlags, NAPI_CPP_EXCEPTIONS,
                   callers, last>>

\* variant: a failed command resets the stored response
AssignLastResponse_resetting(r) ==
    IF r.err = NoError /\ ~r.crash THEN r.value ELSE Str(EmptyText)

\* variant: the output is appended to the stored response
AssignLastResponse_appending(r) ==
    IF r.err = NoError /\ ~r.crash THEN Str(_lastResponse.val \o r.value.val)
    ELSE _lastResponse

\* this._lastResponse = this._runCmd(nftCommand): no assignment if it threw
AssignLastResponse(r) ==
    IF r.err = NoError /\ ~r.crash THEN r.value ELSE _lastResponse

\* variant: running a command puts the context back to its default mode
runCmd_resetting(arg, rc, out) ==
    /\ phase = "ready"
    /\ IF arg.type = "string"
       THEN rc \in Verdicts(arg.val) /\ out \in EngineOutput(arg.val, nft.flags)
       ELSE rc = RcOk /\ out = EmptyText
    /\ LET r == _runCmd(arg, rc, out)
       IN  /\ _lastResponse' = AssignLastResponse(r)
           /\ phase' = IF r.crash THEN Crashed ELSE phase
           /\ ret' = [op |-> "runCmd", err |-> r.err]
           /\ run' = IF r.invoked
                      THEN [invoked |-> TRUE, cmd |-> arg.val, rc |-> rc,
                            out |-> IF rc = RcOk THEN out ELSE EmptyText,
                            committed |-> Commits(arg.val, rc, _getDryRun)]
                      ELSE NoRun
           /\ respFlags' = IF r.err = NoError /\ ~r.crash THEN nft.flags ELSE respFlags
           /\ nullCall' = (nullCall \/ r.nullCall)
    /\ nft' = [nft EXCEPT !.dry = NewCtx.dry]
    /\ UNCHANGED <<ctx_, live, nextId, _dryRun, frees, NAPI_CPP_EXCEPTIONS,
                   callers, last>>

runCmd(arg, rc, out) ==
    /\ phase = "ready"
    /\ IF arg.type = "string"
       THEN rc \in Verdicts(arg.val) /\ out \in EngineOutput(arg.val, nft.flags)
       ELSE rc = RcOk /\ out = EmptyText
    /\ LET r == _runCmd(arg, rc, out)
       IN  /\ _lastResponse' = AssignLastResponse(r)
           /\ phase' = IF r.crash THEN Crashed ELSE phase
           /\ ret' = [op |-> "runCmd", err |-> r.err]
           /\ run' = IF r.invoked
                      THEN [invoked |-> TRUE, cmd |-> arg.val, rc |-> rc,
                            out |-> IF rc = RcOk THEN out ELSE EmptyText,
                            committed |-> Commits(arg.val, rc, _getDryRun)]
                      ELSE NoRun
           /\ respFlags' = IF r.err = NoError /\ ~r.crash THEN nft.flags ELSE respFlags
           /\ nullCall' = (nullCall \/ r.nullCall)
    /\ UNCHANGED <<ctx_, nft, live, nextId, _dryRun, frees, NAPI_CPP_EXCEPTIONS,
                   callers, last>>

\* the argument is an unsigned 32-bit bitmask
IsBitmask(v) == v.type = "number" /\ ~v.neg /\ ~v.frac /\ v.bits \subseteq BitPos
\* the arguments are all bitmasks
AllBitmasks(args) == \A i \in 1 .. Len(args) : IsBitmask(args[i])
\* the bitwise OR of the values of the number arguments
BitwiseOr(args) == UNION {args[i].bits : i \in {j \in 1 .. Len(args) : args[j].type = "number"}}

setOutputFlags(args) ==
    /\ phase = "ready"
    /\ LET r == _setOutputFlags(args)
       IN  /\ nft' = r.nft
           /\ phase' = IF r.crash THEN Crashed ELSE phase
           /\ ret' = [op |-> "setOutputFlags", err |-> r.err,
                      masks |-> AllBitmasks(args), or |-> BitwiseOr(args)]
           /\ nullCall' = (nullCall \/ r.nullCall)
    /\ run' = NoRun
    /\ UNCHANGED <<ctx_, live, nextId, _lastResponse, _dryRun, respFlags,
                   frees, NAPI_CPP_EXCEPTIONS,
                   callers, last>>

\* the default parameter value: dry = true
DryDefault(arg) == IF arg = Undefined THEN Bool(TRUE) ELSE arg

\* variant: the field is assigned whether or not the call threw
AssignDryRun_eager(r) == IF ~r.crash THEN r.value ELSE _dryRun

\* this._dryRun = this._setDryRun(dry): no assignment if it threw
AssignDryRun(r) ==
    IF r.err = NoError /\ ~r.crash THEN r.value ELSE _dryRun

setDryRun(arg, honoured) ==
    /\ phase = "ready"
    /\ LET r == _setDryRun(DryDefault(arg), honoured)
       IN  /\ nft' = r.nft
           /\ _dryRun' = AssignDryRun(r)
           /\ phase' = IF r.crash THEN Crashed ELSE phase
           /\ ret' = [op |-> "setDryRun", err |-> r.err]
           /\ nullCall' = (nullCall \/ r.nullCall)
    /\ run' = NoRun
    /\ UNCHANGED <<ctx_, live, nextId, _lastResponse, respFlags, frees,
                   NAPI_CPP_EXCEPTIONS,
                   callers, last>>

AsString == _lastResponse

asString ==
    /\ phase = "ready"
    /\ ret' = [op |-> "asString", err |-> NoError, val |-> AsString]
    /\ run' = NoRun
    /\ UNCHANGED <<phase, ctx_, nft, live, nextId, _lastResponse, _dryRun,
                   respFlags, nullCall, frees, NAPI_CPP_EXCEPTIONS,
                   callers, last>>

\* variant: the view empties the stored response
asArray_consuming ==
    /\ phase = "ready"
    /\ ret' = [op |-> "asArray", err |-> NoError, val |-> AsArray(_lastResponse.val)]
    /\ run' = NoRun
    /\ _lastResponse' = Str(EmptyText)
    /\ UNCHANGED <<phase, ctx_, nft, live, nextId, _dryRun,
                   respFlags, nullCall, frees, NAPI_CPP_EXCEPTIONS,
                   callers, last>>

asArray ==
    /\ phase = "ready"
    /\ ret' = [op |-> "asArray", err |-> NoError, val |-> AsArray(_lastResponse.val)]
    /\ run' = NoRun
    /\ UNCHANGED <<phase, ctx_, nft, live, nextId, _lastResponse, _dryRun,
                   respFlags, nullCall, frees, NAPI_CPP_EXCEPTIONS,
                   callers, last>>

asMap ==
    /\ phase = "ready"
    /\ ret' = [op |-> "asMap", err |-> NoError, val |-> AsMap(_lastResponse.val)]
    /\ run' = NoRun
    /\ UNCHANGED <<phase, ctx_, nft, live, nextId, _lastResponse, _dryRun,
                   respFlags, nullCall, frees, NAPI_CPP_EXCEPTIONS,
                   callers, last>>

\* variant: the empty text parses
JsonParseError_lenient(text) ==
    IF text = EmptyText \/ JsonParses(text) THEN NoError ELSE ErrJson

\* the error JSON.parse(text) throws, NoError if it returns
JsonParseError(text) == IF JsonParses(text) THEN NoError ELSE ErrJson

asObject ==
    /\ phase = "ready"
    /\ ret' = [op |-> "asObject", err |-> JsonParseError(_lastResponse.val)]
    /\ run' = NoRun
    /\ UNCHANGED <<phase, ctx_, nft, live, nextId, _lastResponse, _dryRun,
                   respFlags, nullCall, frees, NAPI_CPP_EXCEPTIONS,
                   callers, last>>

\* the instance is collected and ~LibNftables runs
Dispose ==
    /\ phase \in {"ready", "failed"}
    /\ live' = live \ {Destructor[i] : i \in 1 .. Len(Destructor)}
    /\ frees' = frees \o Destructor
    /\ phase' = "disposed"
    /\ ret' = [op |-> "~LibNftables", err |-> NoError]
    /\ run' = NoRun
    /\ UNCHANGED <<ctx_, nft, nextId, _lastResponse, _dryRun, respFlags,
                   nullCall, NAPI_CPP_EXCEPTIONS,
                   callers, last>>

Construct == \E allocOk \in BOOLEAN, ob \in {0, 1}, eb \in {0, 1} : constructor(allocOk, ob, eb)
Refresh == \E allocOk \in BOOLEAN, ob \in {0, 1}, eb \in {0, 1} : refreshContext(allocOk, ob, eb)
RunCmd == \E arg \in RunCmdArgs, rc \in {RcOk, RcFail}, out \in EngineTexts : runCmd(arg, rc, out)
SetOutputFlags == \E args \in FlagArgLists : setOutputFlags(args)
SetDryRun == \E arg \in SetDryRunArgs, honoured \in BOOLEAN : setDryRun(arg, honoured)

Next ==
    \/ Construct
    \/ Refresh
    \/ RunCmd
    \/ SetOutputFlags
    \/ SetDryRun
    \/ asString
    \/ asArray
    \/ asMap
    \/ asObject
    \/ Dispose

Spec == Init /\ [][Next]_vars

(***************************************************************************)
(* The views over the texts the engine may leave in the output buffer.     *)
(* What libnftables prints is not under the program's control, so the      *)
(* stored response ranges over every text up to MaxChars characters of     *)
(* TextChars, and over every text of up to MaxLines lines of LineShapes.    *)
(***************************************************************************)
TextChars == {"\t", "{", "}", "\n", " ", "a"}
CharTexts == UNION {[1 .. n -> TextChars] : n \in 0 .. MaxChars}

\* " # handle ", as nft prints it in front of a handle identifier
Annotation == <<" ", "#", " ">> \o HandleWord \o <<" ">>
LineShapes ==
    { <<"r">> \o Annotation \o <<"1">>,
      <<"s">> \o Annotation \o <<"1">>,
      <<"\t", "r">> \o Annotation \o <<"2">>,
      <<"r">> \o Annotation \o <<"1">> \o Annotation \o <<"2">>,
      <<"r">> \o Annotation,
      Annotation \o <<"1">>,
      <<"r", " ", "#">> \o HandleWord \o <<" ", "1">>,
      HandleWord,
      <<"t", " ", "{">>,
      <<"}">>,
      <<" ">>,
      << >> }

RECURSIVE JoinLines(_)
JoinLines(lines) ==
    IF lines = << >> THEN << >>
    ELSE Head(lines) \o <<"\n">> \o JoinLines(Tail(lines))

LineTexts == {JoinLines(ls) : ls \in UNION {[1 .. n -> LineShapes] : n \in 0 .. MaxLines}}

ResponseTexts == CharTexts \cup LineTexts

\* a Context right after setOutputFlags(OUTPUT_HANDLE) and a runCmd that
\* returned the text
InitText ==
    /\ phase = "ready"
    /\ ctx_ = 1
    /\ nft = [flags |-> OUTPUT_HANDLE, dry |-> FALSE, outBuf |-> TRUE, errBuf |-> TRUE]
    /\ live = {1}
    /\ nextId = 2
    /\ \E text \in ResponseTexts :
           /\ _lastResponse = Str(text)
           /\ run = [invoked |-> TRUE, cmd |-> CmdList, rc |-> RcOk, out |-> text,
                     committed |-> FALSE]
    /\ _dryRun = Undefined
    /\ ret = [op |-> "runCmd", err |-> NoError]
    /\ respFlags = OUTPUT_HANDLE
    /\ nullCall = FALSE
    /\ frees = << >>
    /\ NAPI_CPP_EXCEPTIONS \in BOOLEAN
    /\ callers = NoCallers
    /\ last = [setBy |-> NoCaller, respBy |-> NoCaller]

NextText ==
    \/ asString
    \/ asArray
    \/ asMap
    \/ asObject

SpecText == InitText /\ [][NextText]_vars

(***************************************************************************)
(* Callers that share one Context.  Each runs the program                  *)
(*     ctx.setOutputFlags(F); ctx.runCmd(c); ctx.asString()                *)
(* and gives up if a call throws.  The methods are synchronous, so a call  *)
(* of one caller is over before a call of another begins; between two      *)
(* calls of a caller any other caller may run.                             *)
(***************************************************************************)
Callers == 1 .. MaxCallers
CallerFlags == {OUTPUT_DEFAULT, OUTPUT_HANDLE, OUTPUT_JSON}
CallerCmds == {CmdList, CmdAdd}

\* a caller about to make its first call: flags and cmd are its F and c,
\* ranUnder the output flags active when its command ran, own the value its
\* runCmd returned, read the value its asString returned, readFrom the
\* caller whose command produced that value
Caller(flags, cmd) ==
    [pc |-> "setOutputFlags", flags |-> flags, cmd |-> cmd,
     ranUnder |-> OUTPUT_DEFAULT, own |-> Undefined,
     read |-> Undefined, readFrom |-> NoCaller]

\* new LibNftablesContext() has returned
InitShared ==
    /\ phase = "ready"
    /\ ctx_ = 1
    /\ nft = [NewCtx EXCEPT !.outBuf = TRUE, !.errBuf = TRUE]
    /\ live = {1}
    /\ nextId = 2
    /\ _lastResponse = Str(EmptyText)
    /\ _dryRun = Undefined
    /\ ret = [op |-> "constructor", err |-> NoError]
    /\ run = NoRun
    /\ respFlags = OUTPUT_DEFAULT
    /\ nullCall = FALSE
    /\ frees = << >>
    /\ NAPI_CPP_EXCEPTIONS \in BOOLEAN
    /\ callers \in [Callers -> {Caller(f, c) : f \in CallerFlags, c \in CallerCmds}]
    /\ last = [setBy |-> NoCaller, respBy |-> NoCaller]

\* caller p calls ctx.setOutputFlags(F)
CallerSetOutputFlags(p) ==
    /\ phase = "ready"
    /\ callers[p].pc = "setOutputFlags"
    /\ LET args == <<UInt(callers[p].flags)>>
           r == _setOutputFlags(args)
       IN  /\ nft' = r.nft
           /\ phase' = IF r.crash THEN Crashed ELSE phase
           /\ ret' = [op |-> "setOutputFlags", err |-> r.err,
                      masks |-> AllBitmasks(args), or |-> BitwiseOr(args)]
           /\ nullCall' = (nullCall \/ r.nullCall)
           /\ callers' = [callers EXCEPT
                              ![p].pc = IF r.err = NoError /\ ~r.crash
                                        THEN "runCmd" ELSE "done"]
    /\ last' = [last EXCEPT !.setBy = p]
    /\ run' = NoRun
    /\ UNCHANGED <<ctx_, live, nextId, _lastResponse, _dryRun, respFlags,
                   frees, NAPI_CPP_EXCEPTIONS>>

\* variant: the command runs under the flags of the caller that submits it
CallerRunCmd_isolated(p, rc, out) ==
    /\ phase = "ready"
    /\ callers[p].pc = "runCmd"
    /\ rc \in Verdicts(callers[p].cmd)
    /\ out \in EngineOutput(callers[p].cmd, callers[p].flags)
    /\ LET r == _runCmd(Str(callers[p].cmd), rc, out)
           returned == r.err = NoError /\ ~r.crash
       IN  /\ _lastResponse' = AssignLastResponse(r)
           /\ phase' = IF r.crash THEN Crashed ELSE phase
           /\ ret' = [op |-> "runCmd", err |-> r.err]
           /\ run' = [invoked |-> TRUE, cmd |-> callers[p].cmd, rc |-> rc,
                      out |-> IF rc = RcOk THEN out ELSE EmptyText,
                      committed |-> Commits(callers[p].cmd, rc, _getDryRun)]
           /\ respFlags' = IF returned THEN callers[p].flags ELSE respFlags
           /\ nullCall' = (nullCall \/ r.nullCall)
           /\ callers' = [callers EXCEPT
                              ![p].pc = IF returned THEN "asString" ELSE "done",
                              ![p].ranUnder = callers[p].flags,
                              ![p].own = r.value]
           /\ last' = [last EXCEPT !.respBy = IF returned THEN p ELSE @]
    /\ UNCHANGED <<ctx_, nft, live, nextId, _dryRun, frees, NAPI_CPP_EXCEPTIONS>>

\* caller p calls ctx.runCmd(c)
CallerRunCmd(p, rc, out) ==
    /\ phase = "ready"
    /\ callers[p].pc = "runCmd"
    /\ rc \in Verdicts(callers[p].cmd)
    /\ out \in EngineOutput(callers[p].cmd, _getOutputFlags)
    /\ LET r == _runCmd(Str(callers[p].cmd), rc, out)
           returned == r.err = NoError /\ ~r.crash
       IN  /\ _lastResponse' = AssignLastResponse(r)
           /\ phase' = IF r.crash THEN Crashed ELSE phase
           /\ ret' = [op |-> "runCmd", err |-> r.err]
           /\ run' = [invoked |-> TRUE, cmd |-> callers[p].cmd, rc |-> rc,
                      out |-> IF rc = RcOk THEN out ELSE EmptyText,
                      committed |-> Commits(callers[p].cmd, rc, _getDryRun)]
           /\ respFlags' = IF returned THEN _getOutputFlags ELSE respFlags
           /\ nullCall' = (nullCall \/ r.nullCall)
           /\ callers' = [callers EXCEPT
                              ![p].pc = IF returned THEN "asString" ELSE "done",
                              ![p].ranUnder = _getOutputFlags,
                              ![p].own = r.value]
           /\ last' = [last EXCEPT !.respBy = IF returned THEN p ELSE @]
    /\ UNCHANGED <<ctx_, nft, live, nextId, _dryRun, frees, NAPI_CPP_EXCEPTIONS>>

\* caller p calls ctx.asString()
CallerAsString(p) ==
    /\ phase = "ready"
    /\ callers[p].pc = "asString"
    /\ ret' = [op |-> "asString", err |-> NoError, val |-> AsString]
    /\ run' = NoRun
    /\ callers' = [callers EXCEPT ![p].pc = "done",
                                  ![p].read = AsString,
                                  ![p].readFrom = last.respBy]
    /\ UNCHANGED <<phase, ctx_, nft, live, nextId, _lastResponse, _dryRun,
                   respFlags, nullCall, frees, NAPI_CPP_EXCEPTIONS, last>>

SharedSetOutputFlags == \E p \in Callers : CallerSetOutputFlags(p)
SharedRunCmd ==
    \E p \in Callers, rc \in {RcOk, RcFail}, out \in EngineTexts : CallerRunCmd(p, rc, out)
SharedAsString == \E p \in Callers : CallerAsString(p)

NextShared ==
    \/ SharedSetOutputFlags
    \/ SharedRunCmd
    \/ SharedAsString

SpecShared == InitShared /\ [][NextShared]_vars

(***************************************************************************)
(* Properties                                                              *)
(***************************************************************************)
\* the step is a call of the method op
Called(op) == ret'.op = op
\* the call returned to its caller without throwing
Returned == ret'.err = NoError /\ phase' # Crashed

\* C1: a runCmd that fails, whether the engine rejected the command or the
\* argument was not a string, leaves Last Response exactly as it was.
C1_FailedRunCmdKeepsLastResponse ==
    [][Called("runCmd") /\ ~Returned => _lastResponse' = _lastResponse]_vars

\* a rejected command came after a listing, and the listing is still stored
C1_Witness ==
    /\ ret = [op |-> "runCmd", err |-> ErrCommand]
    /\ run.invoked /\ run.rc = RcFail
    /\ _lastResponse = Str(TextListing)

\* C2: after setOutputFlags(f1..fn) returns, for bitmasks f1..fn, the flags
\* read back are exactly f1 | .. | fn, whatever flags were active before.
C2_SetOutputFlagsReplaces ==
    [][Called("setOutputFlags") /\ Returned /\ ret'.masks
          => _getOutputFlags' = ret'.or]_vars

\* OUTPUT_JSON alone is active although a command ran under OUTPUT_HANDLE
C2_Witness ==
    /\ ret.op = "setOutputFlags" /\ ret.err = NoError
    /\ ret.masks /\ ret.or = OUTPUT_JSON
    /\ nft.flags = OUTPUT_JSON
    /\ respFlags = OUTPUT_HANDLE
    /\ phase = "ready"

\* C3: a refresh that obtains a new handle leaves on it the flags that were
\* active on the old one, zero included, at every refresh of every run.
C3_RefreshRestoresFlags ==
    [][Called("refreshContext") /\ ctx_' # NULL
          => _getOutputFlags' = _getOutputFlags]_vars

\* the second refresh in a row, with both flags active
C3_Witness ==
    /\ ret.op = "refreshContext"
    /\ ctx_ = 3
    /\ nft.flags = OUTPUT_HANDLE \cup OUTPUT_JSON

\* C4: a setOutputFlags rejected for having no argument or a non-number
\* argument makes no engine call, so the active flags stay as they were.
C4_RejectedFlagsUnchanged ==
    [][Called("setOutputFlags") /\ ret'.err \in {ErrNoFlags, ErrFlagType}
          => _getOutputFlags' = _getOutputFlags]_vars

\* C5: right after a runCmd that returns, asString() is exactly the text the
\* engine produced for that command, nothing of the earlier response kept.
C5_AsStringIsEngineOutput ==
    [][Called("runCmd") /\ Returned
          => run'.invoked /\ AsString' = Str(run'.out)]_vars

\* a listing with its tab and newlines, stored after a JSON response
C5_Witness ==
    /\ ret = [op |-> "runCmd", err |-> NoError]
    /\ run.invoked /\ run.rc = RcOk /\ run.out = TextListing
    /\ _lastResponse = Str(TextListing)

\* C6: setDryRun(v), v defaulting to true, returns only if the mode read back
\* from the engine equals v.
C6_SetDryRunReturnsOnlyIfHonoured ==
    [][Called("setDryRun") /\ Returned =>
          \A arg \in SetDryRunArgs :
              (\E honoured \in BOOLEAN : setDryRun(arg, honoured))
                  => /\ DryDefault(arg).type = "boolean"
                     /\ _getDryRun' = DryDefault(arg).val]_vars

\* dry-run was switched on and the call returned
C6_Witness ==
    /\ ret = [op |-> "setDryRun", err |-> NoError]
    /\ nft.dry
    /\ _dryRun = Bool(TRUE)

\* C7: a refresh leaves Last Response, and so every view of it, unchanged,
\* and the handle it obtains is a new one, the old one being released.
C7_RefreshKeepsLastResponse ==
    [][Called("refreshContext") =>
          /\ AsString' = AsString
          /\ AsArray(_lastResponse'.val) = AsArray(_lastResponse.val)
          /\ ctx_' # NULL => ctx_' # ctx_ /\ ctx_' \in live' /\ ctx_ \notin live']_vars

\* a refresh happened while a listing was stored
C7_Witness ==
    /\ ret = [op |-> "refreshContext", err |-> NoError]
    /\ ctx_ = 2
    /\ _lastResponse = Str(TextListing)

\* C8: when nft_ctx_new gives a null handle, create/recreate fails with an
\* error reported to the caller and no engine function is called on null.
C8_NullHandleReported ==
    [][Called("constructor") \/ Called("refreshContext") =>
          \A ob \in {0, 1}, eb \in {0, 1} :
              (constructor(FALSE, ob, eb) \/ refreshContext(FALSE, ob, eb))
                  => ret'.err # NoError /\ phase' # Crashed /\ ~nullCall']_vars

\* C9: after a create/recreate in which a buffer could not be enabled, no
\* runCmd reaches the engine until a create/recreate has succeeded.
C9_NoCommandAfterBufferFailure ==
    [][Called("runCmd") /\ ~(nft.outBuf /\ nft.errBuf) => ~run'.invoked]_vars

\* C10: asObject() throws whenever Last Response is not valid JSON, as it is
\* on a fresh Context and after a command run without OUTPUT_JSON, and the
\* throw changes nothing: Last Response is still the string the other views read.
C10_AsObjectFailsOnNonJson ==
    [][Called("asObject") /\ (~JsonParses(_lastResponse.val) \/ ~(OUTPUT_JSON \subseteq respFlags))
          => /\ ret'.err = ErrJson
             /\ _lastResponse'.type = "string"
             /\ UNCHANGED <<_lastResponse, nft, _dryRun, ctx_, live>>]_vars

\* asObject() threw on a listing produced without OUTPUT_JSON
C10_Witness ==
    /\ ret = [op |-> "asObject", err |-> ErrJson]
    /\ _lastResponse = Str(TextListing)
    /\ respFlags = OUTPUT_DEFAULT

\* the elements of a sequence of sequences, one after the other
RECURSIVE Flatten(_)
Flatten(ss) == IF ss = << >> THEN << >> ELSE Head(ss) \o Flatten(Tail(ss))

\* C11: whatever text is stored, asArray() returns no empty element and no
\* element with a tab, a brace or a newline in it, and its elements follow
\* the order of the lines: put one after the other they are the stored text
\* without its tabs, braces and newlines, and without the whitespace around it.
C11_AsArrayElements ==
    ret.op = "asArray" =>
        /\ \A i \in 1 .. Len(ret.val) :
               /\ ret.val[i] # << >>
               /\ \A k \in 1 .. Len(ret.val[i]) :
                      ret.val[i][k] \notin {"\t", "{", "}", "\n"}
        /\ Flatten(ret.val) =
               Trim(SelectSeq(_lastResponse.val,
                              LAMBDA c : c \notin {"\t", "{", "}", "\n"}))

\* a text with a brace and a blank line in it gave two or more elements
C11_Witness ==
    /\ ret.op = "asArray"
    /\ Len(ret.val) >= 2
    /\ \E i \in 1 .. Len(_lastResponse.val) : _lastResponse.val[i] \in {"\t", "{", "}"}
    /\ \E i \in 1 .. Len(_lastResponse.val) - 1 :
           _lastResponse.val[i] = "\n" /\ _lastResponse.val[i + 1] = "\n"

\* C12: when OUTPUT_HANDLE was not set for the command that produced the
\* stored response, as on a fresh Context, asMap() returns an empty Map and
\* does not throw.
C12_AsMapEmptyWithoutHandleFlag ==
    [][Called("asMap") /\ ~(OUTPUT_HANDLE \subseteq respFlags)
          => ret'.err = NoError /\ ret'.val = << >>]_vars

\* asMap() of a listing produced without OUTPUT_HANDLE, the flag being set
\* by now
C12_Witness ==
    /\ ret.op = "asMap"
    /\ ret.err = NoError
    /\ ret.val = << >>
    /\ _lastResponse = Str(TextListing)
    /\ respFlags = OUTPUT_DEFAULT
    /\ OUTPUT_HANDLE \subseteq _getOutputFlags

\* C13: a setOutputFlags call in which some argument is a number that is not
\* an unsigned 32-bit integer throws, and leaves the active flags as they were.
C13_OutOfRangeFlagsRejected ==
    [][Called("setOutputFlags") =>
          \A args \in FlagArgLists :
              (/\ setOutputFlags(args)
               /\ \E i \in 1 .. Len(args) :
                      args[i].type = "number" /\ ~IsBitmask(args[i]))
                  => ret'.err # NoError /\ _getOutputFlags' = _getOutputFlags]_vars

Views == {"asString", "asArray", "asMap", "asObject"}

\* C14: a view call, whether it returns or throws, leaves the stored
\* response, the output flags, the dry-run mode and the handle as they were;
\* the same view called again right away gives the same result, and nothing
\* but runCmd changes the stored response the views are derived from.
C14_ViewsChangeNothing ==
    [][/\ ret'.op \in Views =>
             /\ UNCHANGED <<_lastResponse, nft, _dryRun, ctx_, live, phase>>
             /\ ret.op = ret'.op => ret' = ret
       /\ phase = "ready" /\ ~Called("runCmd") => _lastResponse' = _lastResponse]_vars

\* asMap() returned entries on a Context in dry-run mode
C14_Witness ==
    /\ ret.op = "asMap"
    /\ ret.val # << >>
    /\ _getDryRun
    /\ _dryRun = Bool(TRUE)
    /\ ctx_ \in live

\* the Context holds a live handle with both buffers enabled
Usable == phase = "ready" /\ ctx_ \in live /\ nft.outBuf /\ nft.errBuf

\* C15: a runCmd that returns or throws leaves the output flags, the dry-run
\* mode and the handle as they were; on a usable Context it leaves the
\* Context usable, and there a command the engine accepts returns normally,
\* whatever the call before it was.
C15_RunCmdKeepsContext ==
    [][Called("runCmd") =>
          /\ phase' # Crashed =>
                 UNCHANGED <<_getOutputFlags, _getDryRun, _dryRun, ctx_, live, phase>>
          /\ Usable =>
                 /\ Usable'
                 /\ run'.invoked /\ run'.rc = RcOk => Returned]_vars

\* a mutating command was accepted in dry-run mode under OUTPUT_HANDLE, and
\* the mode and the flags are still there
C15_Witness ==
    /\ ret = [op |-> "runCmd", err |-> NoError]
    /\ run.cmd = CmdAdd /\ run.rc = RcOk /\ ~run.committed
    /\ _getDryRun
    /\ _dryRun = Bool(TRUE)
    /\ _getOutputFlags = OUTPUT_HANDLE

\* C16: a refresh that obtains a new handle carries the output flags over
\* but not the dry-run mode: the new context is not in dry-run mode even if
\* setDryRun(true) was accepted before, so a mutating command the engine
\* accepts right after the refresh is committed.
C16_RefreshDropsDryRun ==
    [][/\ Called("refreshContext") /\ ctx_' # NULL =>
             /\ ~_getDryRun'
             /\ _getOutputFlags' = _getOutputFlags
       /\ (/\ ret.op = "refreshContext"
           /\ Called("runCmd")
           /\ run'.invoked /\ run'.rc = RcOk /\ Mutating(run'.cmd))
             => run'.committed]_vars

\* a command was committed while the wrapper still records the dry-run mode
\* accepted before the refresh
C16_Witness ==
    /\ ret = [op |-> "runCmd", err |-> NoError]
    /\ run.cmd = CmdAdd /\ run.committed
    /\ _dryRun = Bool(TRUE)
    /\ ~_getDryRun

\* C17: when the constructor returns, the Context holds a live handle with
\* both buffers enabled, so a command the engine accepts, submitted as the
\* first operation, returns normally; and in no later state does a Context
\* that can be called hold no handle.
C17_ReadyAfterConstruction ==
    [][/\ Called("constructor") /\ phase' = "ready" => Usable'
       /\ (ret.op = "constructor" /\ Called("runCmd")) =>
             /\ phase' = "ready"
             /\ run'.invoked /\ run'.rc = RcOk => Returned
       /\ phase' = "ready" => ctx_' # NULL /\ ctx_' \in live']_vars

\* a listing was returned by the first handle, before any other setting
C17_Witness ==
    /\ ret = [op |-> "runCmd", err |-> NoError]
    /\ run.cmd = CmdList /\ run.out = TextListing
    /\ ctx_ = 1
    /\ _dryRun = Undefined
    /\ ctx_ \in live

\* the handles released so far
Released == {frees[i] : i \in 1 .. Len(frees)}

\* C18: after construction and any number of refreshes at most one handle is
\* live, and it is the one the instance refers to; a refresh releases the
\* handle held before it, and only that one.
C18_AtMostOneLiveHandle ==
    [][/\ Cardinality(live') <= 1
       /\ live' \subseteq {ctx_'}
       /\ Called("refreshContext") =>
             /\ ctx_ \notin live'
             /\ frees' = Append(frees, ctx_)]_vars

\* the third handle is the only live one after two refreshes
C18_Witness ==
    /\ ret.op = "refreshContext"
    /\ ctx_ = 3
    /\ live = {3}
    /\ frees = <<1, 2>>

\* C19: no handle is released twice, every handle allocated is either live
\* or released, a Context that can be called never refers to a released
\* handle, and after disposal every handle allocated has been released.
C19_ReleasedExactlyOnce ==
    /\ \A i, j \in 1 .. Len(frees) : i # j => frees[i] # frees[j]
    /\ Released \cap live = {}
    /\ Released \cup live = 1 .. (nextId - 1)
    /\ phase = "ready" => ctx_ \notin Released
    /\ phase = "disposed" => live = {} /\ Released = 1 .. (nextId - 1)

\* disposal after two refreshes, the last of which could not enable the
\* output buffer
C19_Witness ==
    /\ phase = "disposed"
    /\ frees = <<1, 2, 3>>
    /\ ~nft.outBuf

\* C20: asMap() has one entry for each distinct handle identifier among the
\* lines of asArray() that contain 'handle' and split at the annotation into
\* more than one part: the key is the second part, the value the first part
\* of the last such line with that identifier.
C20_AsMapEntries ==
    ret.op = "asMap" =>
        LET lines == AsArray(_lastResponse.val)
            Annotated == {i \in 1 .. Len(lines) :
                             ContainsHandle(lines[i]) /\ Len(SplitHandle(lines[i])) > 1}
            Id(i) == SplitHandle(lines[i])[2]
            Ids == {Id(i) : i \in Annotated}
        IN  /\ Len(ret.val) = Cardinality(Ids)
            /\ {ret.val[j][1] : j \in 1 .. Len(ret.val)} = Ids
            /\ \A j \in 1 .. Len(ret.val) :
                   \E i \in Annotated :
                       /\ Id(i) = ret.val[j][1]
                       /\ \A k \in Annotated : Id(k) = Id(i) => k <= i
                       /\ ret.val[j][2] = SplitHandle(lines[i])[1]

\* two lines with handle 1: one entry, with the description of the later line
C20_Witness ==
    /\ _lastResponse = Str(JoinLines(<< <<"r">> \o Annotation \o <<"1">>,
                                       <<"s">> \o Annotation \o <<"1">> >>))
    /\ ret.op = "asMap"
    /\ ret.err = NoError
    /\ ret.val = << << <<"1">>, <<"s">> >> >>

\* C21 as stated: once a setDryRun has returned, the mode recorded in _dryRun
\* is the engine's dry-run mode in every later state of a Context that can
\* be called.
C21_DryRunRecordMatchesEngine ==
    phase = "ready" /\ _dryRun.type = "boolean" => _dryRun = Bool(_getDryRun)

\* C21: a setDryRun that returns records the engine's dry-run mode in
\* _dryRun, and every call but refreshContext, a setDryRun that throws
\* included, keeps a record that agrees with the engine in agreement; a
\* refreshContext that obtains a new handle leaves the record as it was and
\* the engine out of dry-run mode, so that afterwards they agree only if the
\* record says false.
C21_DryRunRecordUntilRefresh ==
    [][/\ Called("setDryRun") /\ Returned => _dryRun' = Bool(_getDryRun')
       /\ (/\ phase' = "ready"
           /\ ~Called("refreshContext")
           /\ _dryRun = Bool(_getDryRun)) => _dryRun' = Bool(_getDryRun')
       /\ Called("refreshContext") /\ ctx_' # NULL =>
             _dryRun' = _dryRun /\ ~_getDryRun']_vars

\* a setDryRun(false) the engine did not honour threw, and the record made
\* by the setDryRun(true) before it still agrees with the engine
C21_Witness ==
    /\ ret = [op |-> "setDryRun", err |-> ErrDryRun]
    /\ _dryRun = Bool(TRUE)
    /\ _getDryRun

\* C22: calls of callers that share a Context do not overlap, and the
\* Context keeps nothing per caller: a caller's command runs under the flags
\* of whichever caller called setOutputFlags last, and the value asString
\* gives a caller is the response of whichever caller's command returned
\* last, be it its own or not.
C22_SharedContextNoIsolation ==
    [][\A p \in Callers :
          /\ callers'[p] # callers[p] =>
                 \A q \in Callers \ {p} : callers'[q] = callers[q]
          /\ (callers[p].pc = "runCmd" /\ callers'[p].pc # "runCmd") =>
                 callers'[p].ranUnder = callers[last.setBy].flags
          /\ (callers[p].pc = "asString" /\ callers'[p].pc = "done") =>
                 /\ callers'[p].readFrom = last.respBy
                 /\ callers'[p].read = callers[last.respBy].own]_vars

\* a caller whose command ran under the other caller's flags and whose
\* asString gave the other caller's response
C22_Witness ==
    \E p, q \in Callers :
        /\ p # q
        /\ callers[p].pc = "done"
        /\ callers[p].ranUnder = callers[q].flags
        /\ callers[p].ranUnder # callers[p].flags
        /\ callers[p].readFrom = q
        /\ callers[p].read = callers[q].own
        /\ callers[p].read # callers[p].own

====
